---- MODULE Spec2Model ----
(***************************************************************************)
(* Live-session core of the multimodal emotional assistant (src/App.tsx):  *)
(* the session lifecycle (handleToggleLiveSession and the four channel     *)
(* callbacks), the turn coordinator (transcription branches of onmessage), *)
(* the playback scheduler (audio branch of onmessage, stopAllAudio) and    *)
(* the turn-based send (handleSendMessage).                                *)
(*                                                                         *)
(* Every handler runs to its first await as one atomic step (single event  *)
(* loop); the continuation after an await is a separate step.  The live    *)
(* channel is the environment: it opens, delivers messages, reports       *)
(* errors, and delivers one close callback per channel.  The callbacks are *)
(* independent: onerror is a notification, and the channel is closed only  *)
(* by its close callback.                                                  *)
(***************************************************************************)
EXTENDS Integers, Sequences, FiniteSets, TLC

\* ------------------------------------------------------------------ bounds
MaxChan   == 2   \* channels that may be opened in one run
MaxMsgs   == 2   \* inbound live messages in one run
MaxHist   == 3   \* chat history entries
MaxText   == 2   \* fragments merged into one entry
MaxChunks == 2   \* audio chunks received in one run
MaxClock  == 1   \* output clock ticks per audio context
MaxDur    == 2   \* longest chunk duration (clock units)
MaxFrames == 2   \* capture frames delivered in one run
Unit      == 4   \* a sample k stands for the value k / Unit
MaxCam    == 3   \* startStream calls in one run
MaxRec    == 2   \* recordings started in one run
MaxBlob   == 1   \* non-empty chunks a recorder delivers

NegScale  == 32768   \* 0x8000
PosScale  == 32767   \* 0x7FFF
Int16Mod  == 65536   \* an Int16Array element keeps its value modulo 2^16

Chans     == 1..MaxChan
Cams      == 1..MaxCam
Recs      == 1..MaxRec
Durations == 1..MaxDur
NoFrag    == "-"
Frags     == {"a", "b"}
FragOpt   == Frags \cup {NoFrag}
Dots      == <<"...">>
Reply     == <<"r">>
Sorry     == <<"Sorry, an error occurred.">>
Typed     == <<"x">>
\* the sample buffers a frame may hold: one sample anywhere in [-2.0, 2.0],
\* or the three samples 1.5, -1.5, 0.0
Buffers   == {<<k>> : k \in (-2 * Unit)..(2 * Unit)}
               \cup {<<(3 * Unit) \div 2, -((3 * Unit) \div 2), 0>>}
Texts     == {Typed, Dots}   \* what the user may type: some text, or the text "..."

VARIABLES
  \* ---- program state (React state and refs of App)
  isLiveActive,        \* useState isLiveActive
  mediaError,          \* useState mediaError (TRUE = a message is set)
  genState,            \* "idle" | "text" | "speech": position of handleSendMessage
  chatHistory,         \* useState chatHistory
  isUserTurnActive,    \* useRef
  isAiTurnActive,      \* useRef
  sessionPromiseRef,   \* 0 = null, else the channel whose promise it holds
  inputCtx,            \* inputAudioContextRef: "none" | "running" | "closed"
  outputCtx,           \* outputAudioContextRef: "none" | "running" | "closed"
  clock,               \* outputAudioContextRef.current.currentTime
  nextStartTime,       \* nextStartTimeRef
  liveAudioStreamRef,  \* 0 = null, else the channel whose onopen acquired it
  procRef,             \* scriptProcessorRef / mediaStreamSourceRef: 0 = null
  mic,                 \* per onopen call: state of its getUserMedia stream
  graph,               \* per onopen call: state of its capture graph
  sources,             \* every AudioBufferSourceNode created by onmessage
  liveAudioSources,    \* liveAudioSourcesRef: indices into sources
  decodeQ,             \* onmessage calls suspended at await decodeAudioData
  uncaught,            \* an exception or rejection escaped a handler
  outputCtxId,         \* which AudioContext outputAudioContextRef holds (0 = none yet)
  ttsSources,          \* every source handleSendMessage created for synthesized speech
  capt,                \* per capture frame: the graph that delivered it, and whether its session was open
  sendQ,               \* sendRealtimeInput calls waiting in .then of an unresolved session promise
  wire,                \* chunks sent on the channels, in sending order
  \* ---- environment
  chan,                \* per channel: state of the live connection
  closeReq,            \* channels with a pending .then(session => session.close())
  \* ---- history variables
  lastOp,              \* the handler that ran last
  rep,                 \* the handler before it was the same handler
  msgCount,            \* inbound messages handled so far
  lastMsg,             \* what the message just handled carried (NoMsg after any other handler)
  lastFrame,           \* the frame onaudioprocess just converted (NoFrame after any other handler)
  halted,              \* the channel the user's last stop asked to close while it was opening or open (0 = none)
  still,               \* the output clock has not moved since the open session's first chunk
  run,                 \* fragments of one speaker received in a row on one channel
  \* ---- useMediaStream and toggleSession (camera session)
  isSessionActive,
  streamRef,           \* 0 = null, else the acquisition whose stream it holds
  stream,              \* the hook's stream state, same encoding
  streamError,         \* the hook's error state is set
  tracks,              \* per startStream call: state of the stream it asked for
  \* ---- recorder variant (handleToggleRecording, handleSendMessage)
  isRecording,
  isGenerating,
  recHistory,          \* chatHistory of the recorder variant
  mediaRecorderRef,    \* 0 = null, else the recorder it holds
  audioChunksRef,      \* number of non-empty chunks in the array
  recorders,           \* per handleToggleRecording start: recorder state, track state, captured isGenerating
  flows                \* per request: position in handleSendMessage / onstop (0 = the typed message)

progVars == <<isLiveActive, mediaError, genState, chatHistory, isUserTurnActive,
              isAiTurnActive, sessionPromiseRef, inputCtx, outputCtx, clock,
              nextStartTime, liveAudioStreamRef, procRef, mic, graph, sources,
              liveAudioSources, decodeQ, uncaught, outputCtxId, ttsSources,
              capt, sendQ, wire>>
envVars  == <<chan, closeReq>>
histVars == <<lastOp, rep, msgCount, lastMsg, lastFrame, halted, still, run>>
camVars  == <<isSessionActive, streamRef, stream, streamError, tracks>>
recVars  == <<isRecording, isGenerating, recHistory, mediaRecorderRef, audioChunksRef,
              recorders, flows>>
vars     == <<progVars, envVars, histVars, camVars, recVars>>

NoMsg == [u |-> "-", a |-> "-", tc |-> FALSE, au |-> 0]

NoFrame == [inputData |-> <<>>, int16Data |-> <<>>]

NoRun == [sp |-> "none", ch |-> 0, text |-> <<>>, base |-> 0]

Max(a, b) == IF a >= b THEN a ELSE b

\* ------------------------------------------------------------------ helpers

\* liveAudioSourcesRef.current.forEach(source => source.stop())
StopAll(srcs, set) ==
  [i \in DOMAIN srcs |->
     IF i \in set /\ srcs[i].st \in {"active", "cut"} THEN [srcs[i] EXCEPT !.st = "stopped"]
     ELSE srcs[i]]

\* (variant used to test C22: the stop branch does not call close)
CloseNotRequested(ch, ref) == ch

\* sessionPromiseRef.current?.then(session => session.close()):
\* an unresolved promise keeps the request; an open channel starts closing.
ChanAfterCloseRequest(ch, ref) ==
  IF ref # 0 /\ ch[ref] = "open" THEN [ch EXCEPT ![ref] = "closing"] ELSE ch

ReqAfterCloseRequest(ch, req, ref) ==
  IF ref # 0 /\ ch[ref] = "connecting" THEN req \cup {ref} ELSE req

\* the handlers whose post-state the properties below speak about
Tracked == {"onclose", "onerror", "stop", "onmessage", "startThrows", "decodeFails"}
Tag(op) == IF op \in Tracked THEN op ELSE "other"

\* the toggle is a stop of a session that is opening or open
UserStops ==
  /\ sessionPromiseRef # 0
  /\ chan[sessionPromiseRef] \in {"connecting", "open"}

HaltedAfter(op) ==
  IF op = "stop" /\ UserStops THEN sessionPromiseRef
  ELSE IF op = "start" \/ lastOp = "onclose" THEN 0
  ELSE halted

Note(op) ==
  /\ lastOp' = Tag(op)
  /\ rep' = (op \in {"onclose", "stop"} /\ lastOp = op)
  /\ lastMsg' = NoMsg
  /\ lastFrame' = NoFrame
  /\ halted' = HaltedAfter(op)

NoteMessage(u, a, tc, au) ==
  /\ lastOp' = "onmessage"
  /\ rep' = FALSE
  /\ lastMsg' = [u |-> u, a |-> a, tc |-> tc, au |-> au]
  /\ lastFrame' = NoFrame
  /\ halted' = HaltedAfter("onmessage")

\* the callbacks of q registered on the promises of the channels cs, in order
RECURSIVE Waiting(_, _)
Waiting(q, cs) ==
  IF q = <<>> THEN <<>>
  ELSE (IF Head(q).to \in cs THEN <<Head(q)>> ELSE <<>>) \o Waiting(Tail(q), cs)

\* ------------------------------------------------------------------ float32ToInt16
Min(a, b) == IF a <= b THEN a ELSE b

\* (variant used to test C17: the sample is scaled without being clamped)
NoClamp(x) == x

\* Math.max(-1, Math.min(1, buffer[i]))
Clamp(x) == Max(-Unit, Min(Unit, x))

\* storing a number n / d in an Int16Array: the fraction is dropped (towards
\* zero) and the integer is kept modulo 2^16, in [-32768, 32767]
Trunc(n, d) == IF n >= 0 THEN n \div d ELSE -((-n) \div d)

ToInt16(v) == ((v + Int16Mod \div 2) % Int16Mod) - Int16Mod \div 2

\* int16[i] = s < 0 ? s * 0x8000 : s * 0x7FFF
float32ToInt16(buffer) ==
  [i \in DOMAIN buffer |->
     LET s == Clamp(buffer[i])
     IN ToInt16(Trunc(IF s < 0 THEN s * NegScale ELSE s * PosScale, Unit))]

\* ------------------------------------------------------------------ init
Init ==
  /\ isLiveActive = FALSE
  /\ mediaError = FALSE
  /\ genState = "idle"
  /\ chatHistory = <<>>
  /\ isUserTurnActive = FALSE
  /\ isAiTurnActive = FALSE
  /\ sessionPromiseRef = 0
  /\ inputCtx = "none"
  /\ outputCtx = "none"
  /\ clock = 0
  /\ nextStartTime = 0
  /\ liveAudioStreamRef = 0
  /\ procRef = 0
  /\ mic = [c \in Chans |-> "none"]
  /\ graph = [c \in Chans |-> "none"]
  /\ sources = <<>>
  /\ liveAudioSources = {}
  /\ decodeQ = <<>>
  /\ uncaught = FALSE
  /\ outputCtxId = 0
  /\ ttsSources = <<>>
  /\ capt = <<>>
  /\ sendQ = <<>>
  /\ wire = <<>>
  /\ chan = [c \in Chans |-> "none"]
  /\ closeReq = {}
  /\ lastOp = "other"
  /\ rep = FALSE
  /\ msgCount = 0
  /\ lastMsg = NoMsg
  /\ lastFrame = NoFrame
  /\ halted = 0
  /\ still = 0
  /\ run = NoRun
  /\ isSessionActive = FALSE
  /\ streamRef = 0
  /\ stream = 0
  /\ streamError = FALSE
  /\ tracks = [k \in Cams |-> "none"]
  /\ isRecording = FALSE
  /\ isGenerating = FALSE
  /\ recHistory = <<>>
  /\ mediaRecorderRef = 0
  /\ audioChunksRef = 0
  /\ recorders = [r \in Recs |-> [st |-> "none", track |-> "none", seenGen |-> FALSE]]
  /\ flows = [f \in 0..MaxRec |-> "idle"]

\* ------------------------------------------------------------------ pure steps of the handlers

\* (variant used to test C30: stopAllAudio clears the set without stopping the sources)
ClearOnly(srcs, set) == srcs

\* stopAllAudio: stop every source of the set, then clear the set
StopAllAudioSources(srcs, set) == StopAll(srcs, set)

\* if (isLiveActive) { ...close...; return } -- a start is taken only when not live
CanStart(live) == ~live

\* (variant used to test C19: a chunk starts now, whatever the cursor says)
StartAtNow(cursor, now) == now

\* Math.max(nextStartTimeRef.current, outputAudioContextRef.current.currentTime)
StartAt(cursor, now) == Max(cursor, now)

\* await decodeAudioData(...): decoding is an asynchronous boundary; the call
\* suspends its handler, and the buffer (of the chunk's duration) arrives later
decodeAudioData(q, c, d) == Append(q, [ch |-> c, dur |-> d])

\* lastMessage.text += textChunk, when the last entry belongs to the speaker
AppendToLast(hist, sender, f) ==
  IF Len(hist) > 0 /\ hist[Len(hist)].sender = sender
  THEN [hist EXCEPT ![Len(hist)].text = @ \o <<f>>]
  ELSE hist

\* (variant used to test C1: the agent flag survives the start of a user turn)
AiFlagKept(ai) == ai

\* the value isAiTurnActive gets when a user fragment opens a user turn
AiFlagOnUserStart(ai) == FALSE

\* the value isUserTurnActive gets when an agent fragment opens an agent turn
UserFlagOnAiStart(user) == FALSE

\* inputTranscription branch: t = [hist, user, ai]
UserBranch(t, f) ==
  IF f = NoFrag THEN t
  ELSE IF ~t.user
       THEN [hist |-> Append(t.hist, [sender |-> "user", text |-> <<f>>]),
             user |-> TRUE, ai |-> AiFlagOnUserStart(t.ai)]
       ELSE [t EXCEPT !.hist = AppendToLast(t.hist, "user", f)]

\* outputTranscription branch
AiBranch(t, f) ==
  IF f = NoFrag THEN t
  ELSE IF ~t.ai
       THEN [hist |-> Append(t.hist, [sender |-> "ai", text |-> <<f>>]),
             user |-> UserFlagOnAiStart(t.user), ai |-> TRUE]
       ELSE [t EXCEPT !.hist = AppendToLast(t.hist, "ai", f)]

\* (variant used to test C15: the signal ends only the user's turn)
TurnCompleteUserOnly(t, tc) ==
  IF tc THEN [t EXCEPT !.user = FALSE] ELSE t

\* turnComplete branch
TurnCompleteBranch(t, tc) ==
  IF tc THEN [t EXCEPT !.user = FALSE, !.ai = FALSE] ELSE t

\* the three text branches of onmessage, in source order
TextPart(t, u, a, tc) == TurnCompleteBranch(AiBranch(UserBranch(t, u), a), tc)

\* AudioContext.close(): a running context closes, a closed one stays closed
CtxAfterClose(st) == IF st = "running" THEN "closed" ELSE st

\* (variant used to test C5: close() without the .catch)
CloseRejectionUncaught(st) == st = "closed"

\* close() of a closed context rejects; .catch(console.error) swallows it
CloseRejectionEscapes(st) == FALSE

\* a source started on a context plays when the context runs
StartedOn(st) == IF st = "running" THEN "active" ELSE "cut"

\* (variant used to test C13: audio is played only in the agent's turn)
HasAudioInAiTurn(au, ctx, t) == au # 0 /\ ctx # "none" /\ t.ai

\* if (base64Audio && outputAudioContextRef.current): the audio branch does
\* not look at the turn state t the text branches left
HasAudio(au, ctx, t) == au # 0 /\ ctx # "none"

\* a source of a context that closes falls silent; it is neither stopped nor ended
SilencedByClose(srcs, ctxId, st) ==
  [i \in DOMAIN srcs |->
     IF st = "running" /\ srcs[i].ctx = ctxId /\ srcs[i].st = "active"
     THEN [srcs[i] EXCEPT !.st = "cut"]
     ELSE srcs[i]]

\* track.stop()
TrackAfterStop(st) == IF st = "live" THEN "stopped" ELSE st

\* node.disconnect()
GraphAfterDisconnect(st) == IF st = "connected" THEN "disconnected" ELSE st

\* history bookkeeping of a run of fragments of one speaker on one channel
RunStep(r, c, sp, f, base) ==
  IF f = NoFrag THEN r
  ELSE IF r.sp = sp /\ r.ch = c
       THEN [r EXCEPT !.text = @ \o <<f>>]
       ELSE [sp |-> sp, ch |-> c, text |-> <<f>>, base |-> base]

RunAfter(r, c, u, a, tc, len0, len1) ==
  IF tc THEN NoRun
  ELSE RunStep(RunStep(IF r.ch = c THEN r ELSE NoRun, c, "user", u, len0), c, "ai", a, len1)

TextOk(hist) ==
  /\ Len(hist) <= MaxHist
  /\ \A i \in DOMAIN hist : Len(hist[i].text) <= MaxText

ChunksOf(c) ==
  Cardinality({i \in DOMAIN sources : sources[i].ch = c})
  + Cardinality({i \in DOMAIN decodeQ : decodeQ[i].ch = c})

\* ------------------------------------------------------------------ handleToggleLiveSession

\* toggle while not live: start a session (startLiveSession returns the promise)
StartLive ==
  /\ CanStart(isLiveActive)
  /\ genState = "idle"                       \* ChatPanel: disabled={isGenerating || isLoadingAudio}
  /\ \E c \in Chans :
       /\ chan[c] = "none"
       /\ \A d \in Chans : d < c => chan[d] # "none"
       /\ chan' = [chan EXCEPT ![c] = "connecting"]
       /\ sessionPromiseRef' = c
  /\ sources' = StopAllAudioSources(sources, liveAudioSources)
  /\ liveAudioSources' = {}
  /\ mediaError' = FALSE
  /\ isLiveActive' = TRUE
  /\ Note("start")
  /\ UNCHANGED <<camVars, recVars, capt, sendQ, wire, outputCtxId, ttsSources, genState, chatHistory, isUserTurnActive, isAiTurnActive, inputCtx,
                 outputCtx, clock, nextStartTime, liveAudioStreamRef, procRef, mic,
                 graph, decodeQ, uncaught, closeReq, msgCount, still, run>>

\* toggle while not live, startLiveSession throws (no API key): catch clears the flag
StartLiveThrows ==
  /\ CanStart(isLiveActive)
  /\ genState = "idle"
  /\ sources' = StopAllAudioSources(sources, liveAudioSources)
  /\ liveAudioSources' = {}
  /\ mediaError' = FALSE
  /\ isLiveActive' = FALSE
  /\ Note("startThrows")
  /\ UNCHANGED <<camVars, recVars, capt, sendQ, wire, outputCtxId, ttsSources, genState, chatHistory, isUserTurnActive, isAiTurnActive,
                 sessionPromiseRef, inputCtx, outputCtx, clock, nextStartTime,
                 liveAudioStreamRef, procRef, mic, graph, decodeQ, uncaught, chan,
                 closeReq, msgCount, still, run>>

\* toggle while live: ask the channel to close; onclose does the rest
StopLive ==
  /\ ~CanStart(isLiveActive)
  /\ genState = "idle"
  /\ sources' = StopAllAudioSources(sources, liveAudioSources)
  /\ liveAudioSources' = {}
  /\ chan' = ChanAfterCloseRequest(chan, sessionPromiseRef)
  /\ closeReq' = ReqAfterCloseRequest(chan, closeReq, sessionPromiseRef)
  /\ Note("stop")
  /\ UNCHANGED <<camVars, recVars, capt, sendQ, wire, outputCtxId, ttsSources, isLiveActive, mediaError, genState, chatHistory, isUserTurnActive,
                 isAiTurnActive, sessionPromiseRef, inputCtx, outputCtx, clock,
                 nextStartTime, liveAudioStreamRef, procRef, mic, graph, decodeQ,
                 uncaught, msgCount, still, run>>

\* ------------------------------------------------------------------ channel callbacks

\* onopen up to await getUserMedia; the connect promise resolves with it
OnOpen(c) ==
  /\ chan[c] = "connecting"
  /\ chan' = [chan EXCEPT ![c] = IF c \in closeReq THEN "closing" ELSE "open"]
  /\ closeReq' = closeReq \ {c}
  /\ wire' = wire \o Waiting(sendQ, {c})
  /\ sendQ' = Waiting(sendQ, Chans \ {c})
  /\ inputCtx' = "running"
  /\ outputCtx' = "running"
  /\ outputCtxId' = outputCtxId + 1
  /\ clock' = 0
  /\ nextStartTime' = 0
  /\ mic' = [mic EXCEPT ![c] = "pending"]
  /\ still' = 0
  /\ Note("onopen")
  /\ UNCHANGED <<camVars, recVars, capt, isLiveActive, mediaError, genState, chatHistory, isUserTurnActive,
                 isAiTurnActive, sessionPromiseRef, liveAudioStreamRef, procRef, graph,
                 sources, liveAudioSources, decodeQ, uncaught, ttsSources, msgCount, run>>

\* onopen after getUserMedia resolved: wire the capture graph.  On a closed
\* input context createMediaStreamSource either throws (catch branch) or not.
MicGranted(c, throws) ==
  /\ mic[c] = "pending"
  /\ throws => inputCtx = "closed"
  /\ mic' = [mic EXCEPT ![c] = "live"]
  /\ liveAudioStreamRef' = c
  /\ IF throws
     THEN /\ mediaError' = TRUE
          /\ chan' = ChanAfterCloseRequest(chan, sessionPromiseRef)
          /\ closeReq' = ReqAfterCloseRequest(chan, closeReq, sessionPromiseRef)
          /\ UNCHANGED <<graph, procRef>>
     ELSE /\ graph' = [graph EXCEPT ![c] = "connected"]
          /\ procRef' = c
          /\ UNCHANGED <<mediaError, chan, closeReq>>
  /\ Note("micGranted")
  /\ UNCHANGED <<camVars, recVars, capt, sendQ, wire, outputCtxId, ttsSources, isLiveActive, genState, chatHistory, isUserTurnActive, isAiTurnActive,
                 sessionPromiseRef, inputCtx, outputCtx, clock, nextStartTime, sources,
                 liveAudioSources, decodeQ, uncaught, msgCount, still, run>>

\* onopen after getUserMedia rejected: catch branch
MicDenied(c) ==
  /\ mic[c] = "pending"
  /\ mic' = [mic EXCEPT ![c] = "denied"]
  /\ mediaError' = TRUE
  /\ chan' = ChanAfterCloseRequest(chan, sessionPromiseRef)
  /\ closeReq' = ReqAfterCloseRequest(chan, closeReq, sessionPromiseRef)
  /\ Note("micDenied")
  /\ UNCHANGED <<camVars, recVars, capt, sendQ, wire, outputCtxId, ttsSources, isLiveActive, genState, chatHistory, isUserTurnActive, isAiTurnActive,
                 sessionPromiseRef, inputCtx, outputCtx, clock, nextStartTime,
                 liveAudioStreamRef, procRef, graph, sources, liveAudioSources, decodeQ,
                 uncaught, msgCount, still, run>>

\* the promise of ai.live.connect rejects before the channel opens: no
\* callback runs, startLiveSession returned the promise without awaiting it,
\* and nothing catches the rejection
ConnectRejects(c) ==
  /\ chan[c] = "connecting"
  /\ chan' = [chan EXCEPT ![c] = "rejected"]
  /\ closeReq' = closeReq \ {c}
  /\ sendQ' = Waiting(sendQ, Chans \ {c})
  /\ uncaught' = TRUE
  /\ Note("connectRejects")
  /\ UNCHANGED <<camVars, recVars, isLiveActive, mediaError, genState, chatHistory, isUserTurnActive,
                 isAiTurnActive, sessionPromiseRef, inputCtx, outputCtx, outputCtxId,
                 clock, nextStartTime, liveAudioStreamRef, procRef, mic, graph, sources,
                 liveAudioSources, decodeQ, ttsSources, capt, wire, msgCount, still, run>>

\* onmessage up to await decodeAudioData
OnMessage(c, u, a, tc, au) ==
  /\ chan[c] \in {"open", "closing"}
  /\ msgCount < MaxMsgs
  /\ u # NoFrag \/ a # NoFrag \/ tc \/ au # 0
  /\ au # 0 => Len(sources) + Len(decodeQ) < MaxChunks
  /\ LET t0 == [hist |-> chatHistory, user |-> isUserTurnActive, ai |-> isAiTurnActive]
         t1 == UserBranch(t0, u)
         t  == TextPart(t0, u, a, tc)
     IN /\ TextOk(t.hist)
        /\ chatHistory' = t.hist
        /\ isUserTurnActive' = t.user
        /\ isAiTurnActive' = t.ai
        /\ run' = RunAfter(run, c, u, a, tc, Len(chatHistory), Len(t1.hist))
  /\ IF HasAudio(au, outputCtx, TextPart([hist |-> chatHistory, user |-> isUserTurnActive,
                                          ai |-> isAiTurnActive], u, a, tc))
     THEN /\ nextStartTime' = StartAt(nextStartTime, clock)
          /\ decodeQ' = decodeAudioData(decodeQ, c, au)
          /\ still' = IF ChunksOf(c) = 0 THEN c ELSE still
     ELSE UNCHANGED <<nextStartTime, decodeQ, still>>
  /\ msgCount' = msgCount + 1
  /\ NoteMessage(u, a, tc, au)
  /\ UNCHANGED <<camVars, recVars, capt, sendQ, wire, outputCtxId, ttsSources, isLiveActive, mediaError, genState, sessionPromiseRef, inputCtx,
                 outputCtx, clock, liveAudioStreamRef, procRef, mic, graph, sources,
                 liveAudioSources, uncaught, chan, closeReq>>

\* onmessage after await decodeAudioData: create, start and register the source
DecodeDone ==
  /\ decodeQ # <<>>
  /\ LET d == Head(decodeQ)
     IN /\ sources' = Append(sources, [start |-> nextStartTime, dur |-> d.dur,
                                       st |-> StartedOn(outputCtx), ch |-> d.ch,
                                       ctx |-> outputCtxId])
        /\ nextStartTime' = nextStartTime + d.dur
  /\ liveAudioSources' = liveAudioSources \cup {Len(sources) + 1}
  /\ decodeQ' = Tail(decodeQ)
  /\ Note("decoded")
  /\ UNCHANGED <<camVars, recVars, capt, sendQ, wire, outputCtxId, ttsSources, isLiveActive, mediaError, genState, chatHistory, isUserTurnActive,
                 isAiTurnActive, sessionPromiseRef, inputCtx, outputCtx, clock,
                 liveAudioStreamRef, procRef, mic, graph, uncaught, chan, closeReq,
                 msgCount, still, run>>

\* (variant used to test C21: a decode failure ends the session)
LiveFlagClearedOnFailure(live) == FALSE

\* the rejection of decodeAudioData leaves onmessage through the await: the
\* rest of the audio branch is skipped and the live flag is not touched
LiveFlagAfterDecodeFailure(live) == live

\* onmessage when await decodeAudioData rejects (undecodable chunk): nothing
\* in onmessage catches it
DecodeFails ==
  /\ decodeQ # <<>>
  /\ decodeQ' = Tail(decodeQ)
  /\ isLiveActive' = LiveFlagAfterDecodeFailure(isLiveActive)
  /\ uncaught' = TRUE
  /\ Note("decodeFails")
  /\ UNCHANGED <<camVars, recVars, mediaError, genState, chatHistory, isUserTurnActive,
                 isAiTurnActive, sessionPromiseRef, inputCtx, outputCtx, outputCtxId,
                 clock, nextStartTime, liveAudioStreamRef, procRef, mic, graph, sources,
                 liveAudioSources, ttsSources, capt, sendQ, wire, chan, closeReq,
                 msgCount, still, run>>

\* onerror
OnError(c) ==
  /\ chan[c] \in {"open", "closing"}
  /\ mediaError' = TRUE
  /\ isLiveActive' = FALSE
  /\ Note("onerror")
  /\ UNCHANGED <<camVars, recVars, capt, sendQ, wire, outputCtxId, ttsSources, genState, chatHistory, isUserTurnActive, isAiTurnActive,
                 sessionPromiseRef, inputCtx, outputCtx, clock, nextStartTime,
                 liveAudioStreamRef, procRef, mic, graph, sources, liveAudioSources,
                 decodeQ, uncaught, chan, closeReq, msgCount, still, run>>

\* onclose: requested by the user ("closing"), initiated by the server
\* ("open"), or the connection attempt failed ("connecting")
OnClose(c) ==
  /\ chan[c] \in {"connecting", "open", "closing"}
  /\ chan' = [chan EXCEPT ![c] = "closed"]
  /\ closeReq' = closeReq \ {c}
  /\ sendQ' = Waiting(sendQ, Chans \ {c})
  /\ UNCHANGED wire
  /\ graph' = [g \in Chans |-> IF g = procRef THEN GraphAfterDisconnect(graph[g]) ELSE graph[g]]
  /\ mic' = [m \in Chans |-> IF m = liveAudioStreamRef THEN TrackAfterStop(mic[m]) ELSE mic[m]]
  /\ inputCtx' = CtxAfterClose(inputCtx)
  /\ outputCtx' = CtxAfterClose(outputCtx)
  /\ sources' = SilencedByClose(sources, outputCtxId, outputCtx)
  /\ ttsSources' = SilencedByClose(ttsSources, outputCtxId, outputCtx)
  /\ uncaught' = (uncaught \/ CloseRejectionEscapes(inputCtx) \/ CloseRejectionEscapes(outputCtx))
  /\ isUserTurnActive' = FALSE
  /\ isAiTurnActive' = FALSE
  /\ isLiveActive' = FALSE
  /\ sessionPromiseRef' = 0
  /\ run' = IF run.ch = c THEN NoRun ELSE run
  /\ Note("onclose")
  /\ UNCHANGED <<camVars, recVars, capt, mediaError, genState, chatHistory, clock, nextStartTime,
                 liveAudioStreamRef, procRef, liveAudioSources, decodeQ,
                 outputCtxId, msgCount, still>>

\* ------------------------------------------------------------------ audio device

\* onaudioprocess of the graph wired by the onopen of channel g: one frame is
\* encoded and handed to sessionPromiseRef.current?.then(sendRealtimeInput)
AudioProcess(g, inputData) ==
  /\ graph[g] = "connected"
  /\ inputCtx = "running"
  /\ Len(capt) < MaxFrames
  /\ capt' = Append(capt, [g |-> g, live |-> chan[g] = "open"])
  /\ LET chunk == [id |-> Len(capt) + 1, g |-> g, to |-> sessionPromiseRef]
     IN IF sessionPromiseRef = 0 \/ chan[sessionPromiseRef] = "rejected"
        THEN UNCHANGED <<sendQ, wire>>
        ELSE IF chan[sessionPromiseRef] = "connecting"
             THEN sendQ' = Append(sendQ, chunk) /\ UNCHANGED wire
             ELSE wire' = Append(wire, chunk) /\ UNCHANGED sendQ
  /\ lastOp' = Tag("onaudioprocess")
  /\ halted' = HaltedAfter("onaudioprocess")
  /\ rep' = FALSE
  /\ lastMsg' = NoMsg
  /\ lastFrame' = [inputData |-> inputData, int16Data |-> float32ToInt16(inputData)]
  /\ UNCHANGED <<camVars, recVars, isLiveActive, mediaError, genState, chatHistory, isUserTurnActive,
                 isAiTurnActive, sessionPromiseRef, inputCtx, outputCtx, outputCtxId,
                 clock, nextStartTime, liveAudioStreamRef, procRef, mic, graph, sources,
                 liveAudioSources, decodeQ, uncaught, ttsSources, chan, closeReq,
                 msgCount, still, run>>

\* the output clock advances while its context runs
Tick ==
  /\ outputCtx = "running"
  /\ clock < MaxClock
  /\ clock' = clock + 1
  /\ still' = 0
  /\ Note("tick")
  /\ UNCHANGED <<camVars, recVars, capt, sendQ, wire, outputCtxId, ttsSources, isLiveActive, mediaError, genState, chatHistory, isUserTurnActive,
                 isAiTurnActive, sessionPromiseRef, inputCtx, outputCtx, nextStartTime,
                 liveAudioStreamRef, procRef, mic, graph, sources, liveAudioSources,
                 decodeQ, uncaught, chan, closeReq, msgCount, run>>

\* source.onended: a source that played to its end leaves the set
SourceEnded(i) ==
  /\ i \in DOMAIN sources
  /\ sources[i].st = "active"
  /\ outputCtx = "running"
  /\ clock >= sources[i].start + sources[i].dur
  /\ sources' = [sources EXCEPT ![i].st = "ended"]
  /\ liveAudioSources' = liveAudioSources \ {i}
  /\ Note("onended")
  /\ UNCHANGED <<camVars, recVars, capt, sendQ, wire, outputCtxId, ttsSources, isLiveActive, mediaError, genState, chatHistory, isUserTurnActive,
                 isAiTurnActive, sessionPromiseRef, inputCtx, outputCtx, clock,
                 nextStartTime, liveAudioStreamRef, procRef, mic, graph, decodeQ,
                 uncaught, chan, closeReq, msgCount, still, run>>

\* ------------------------------------------------------------------ handleSendMessage

\* up to await generateEmpatheticResponse
SendStart(text) ==
  /\ genState = "idle"
  /\ ~isLiveActive
  /\ Len(chatHistory) + 2 <= MaxHist
  /\ sources' = StopAllAudioSources(sources, liveAudioSources)
  /\ liveAudioSources' = {}
  /\ chatHistory' = chatHistory \o <<[sender |-> "user", text |-> text],
                                     [sender |-> "ai", text |-> Dots]>>
  /\ genState' = "text"
  /\ Note("send")
  /\ UNCHANGED <<camVars, recVars, capt, sendQ, wire, outputCtxId, ttsSources, isLiveActive, mediaError, isUserTurnActive, isAiTurnActive,
                 sessionPromiseRef, inputCtx, outputCtx, clock, nextStartTime,
                 liveAudioStreamRef, procRef, mic, graph, decodeQ, uncaught, chan,
                 closeReq, msgCount, still, run>>

\* catch branch: every entry whose text is '...' becomes the error entry
MapDots(hist) ==
  [i \in DOMAIN hist |->
     IF hist[i].text = Dots THEN [sender |-> "ai", text |-> Sorry] ELSE hist[i]]

\* generateEmpatheticResponse settled
TextDone(ok) ==
  /\ genState = "text"
  /\ IF ok
     THEN /\ chatHistory' =
               IF Len(chatHistory) > 0 /\ chatHistory[Len(chatHistory)].sender = "ai"
               THEN [chatHistory EXCEPT ![Len(chatHistory)].text = Reply]
               ELSE chatHistory
          /\ genState' = "speech"
     ELSE /\ chatHistory' = MapDots(chatHistory)
          /\ genState' = "idle"
  /\ Note("textDone")
  /\ UNCHANGED <<camVars, recVars, capt, sendQ, wire, outputCtxId, ttsSources, isLiveActive, mediaError, isUserTurnActive, isAiTurnActive,
                 sessionPromiseRef, inputCtx, outputCtx, clock, nextStartTime,
                 liveAudioStreamRef, procRef, mic, graph, sources, liveAudioSources,
                 decodeQ, uncaught, chan, closeReq, msgCount, still, run>>

\* generateSpeech settled: with audio, the output context is made anew when
\* there is none or it is closed, and the handler awaits decodeAudioData
SpeechDone(res) ==
  /\ genState = "speech"
  /\ genState' = IF res = "audio" THEN "decode" ELSE "idle"
  /\ IF res = "audio" /\ outputCtx # "running"
     THEN /\ outputCtx' = "running"
          /\ outputCtxId' = outputCtxId + 1
          /\ clock' = 0
          /\ still' = 0
     ELSE UNCHANGED <<outputCtx, outputCtxId, clock, still>>
  /\ chatHistory' = IF res = "fail" THEN MapDots(chatHistory) ELSE chatHistory
  /\ Note("speechDone")
  /\ UNCHANGED <<camVars, recVars, capt, sendQ, wire, isLiveActive, mediaError, isUserTurnActive, isAiTurnActive,
                 sessionPromiseRef, inputCtx, nextStartTime, liveAudioStreamRef,
                 procRef, mic, graph, sources, liveAudioSources, decodeQ, uncaught,
                 ttsSources, chan, closeReq, msgCount, run>>

\* handleSendMessage after await decodeAudioData: the source is created on the
\* output context and started at once; it is not put in liveAudioSourcesRef
SpeechDecoded(ok) ==
  /\ genState = "decode"
  /\ genState' = "idle"
  /\ IF ok
     THEN /\ ttsSources' = Append(ttsSources, [st |-> StartedOn(outputCtx), ctx |-> outputCtxId])
          /\ UNCHANGED chatHistory
     ELSE /\ chatHistory' = MapDots(chatHistory)
          /\ UNCHANGED ttsSources
  /\ Note("speechDecoded")
  /\ UNCHANGED <<camVars, recVars, capt, sendQ, wire, isLiveActive, mediaError, isUserTurnActive, isAiTurnActive,
                 sessionPromiseRef, inputCtx, outputCtx, outputCtxId, clock,
                 nextStartTime, liveAudioStreamRef, procRef, mic, graph, sources,
                 liveAudioSources, decodeQ, uncaught, chan, closeReq, msgCount,
                 still, run>>

\* the synthesized speech played to its end
SpeechEnded(i) ==
  /\ i \in DOMAIN ttsSources
  /\ ttsSources[i].st = "active"
  /\ ttsSources' = [ttsSources EXCEPT ![i].st = "ended"]
  /\ Note("speechEnded")
  /\ UNCHANGED <<camVars, recVars, capt, sendQ, wire, isLiveActive, mediaError, genState, chatHistory, isUserTurnActive,
                 isAiTurnActive, sessionPromiseRef, inputCtx, outputCtx, outputCtxId,
                 clock, nextStartTime, liveAudioStreamRef, procRef, mic, graph,
                 sources, liveAudioSources, decodeQ, uncaught, chan, closeReq,
                 msgCount, still, run>>

\* ------------------------------------------------------------------ useMediaStream, toggleSession

\* stopStream: streamRef.current.getTracks().forEach(track => track.stop())
TracksAfterStopStream(tr, ref) ==
  [k \in Cams |-> IF k = ref /\ tr[k] = "live" THEN "stopped" ELSE tr[k]]

\* toggleSession while inactive: startStream up to await getUserMedia (a
\* stream still held is stopped first), then setIsSessionActive(true)
SessionOn ==
  /\ ~isSessionActive
  /\ \E k \in Cams :
       /\ tracks[k] = "none"
       /\ \A j \in Cams : j < k => tracks[j] # "none"
       /\ tracks' = [TracksAfterStopStream(tracks, streamRef) EXCEPT ![k] = "pending"]
  /\ streamRef' = 0
  /\ stream' = IF streamRef # 0 THEN 0 ELSE stream
  /\ isSessionActive' = TRUE
  /\ UNCHANGED <<progVars, envVars, histVars, recVars, streamError>>

\* startStream after getUserMedia resolved
StreamAcquired(k) ==
  /\ tracks[k] = "pending"
  /\ tracks' = [tracks EXCEPT ![k] = "live"]
  /\ streamRef' = k
  /\ stream' = k
  /\ streamError' = FALSE
  /\ UNCHANGED <<progVars, envVars, histVars, recVars, isSessionActive>>

\* startStream after getUserMedia rejected: catch branch
StreamDenied(k) ==
  /\ tracks[k] = "pending"
  /\ tracks' = [tracks EXCEPT ![k] = "denied"]
  /\ streamError' = TRUE
  /\ UNCHANGED <<progVars, envVars, histVars, recVars, isSessionActive, streamRef, stream>>

\* toggleSession while active: stopStream, then setIsSessionActive(false)
SessionOff ==
  /\ isSessionActive
  /\ tracks' = TracksAfterStopStream(tracks, streamRef)
  /\ streamRef' = 0
  /\ stream' = IF streamRef # 0 THEN 0 ELSE stream
  /\ isSessionActive' = FALSE
  /\ UNCHANGED <<progVars, envVars, histVars, recVars, streamError>>

\* ------------------------------------------------------------------ recorder variant

Heard(r) == <<"heard", r>>
Trouble == <<"Sorry, I had trouble understanding your audio. Please try again.">>
Encountered == <<"Sorry, I encountered an error. Please try again.">>

\* if (!text.trim() || isGenerating) return -- with the isGenerating of the
\* render in which the calling closure was created
SendGuardPasses(seenGen) == ~seenGen

\* handleToggleRecording while not recording, up to await getUserMedia.  The
\* closure, and the handleSendMessage it will call, are those of this render.
RecordStart(r) ==
  /\ ~isRecording
  /\ recorders[r].st = "none"
  /\ \A q \in Recs : q < r => recorders[q].st # "none"
  /\ recorders' = [recorders EXCEPT ![r] = [st |-> "acquiring", track |-> "none",
                                            seenGen |-> isGenerating]]
  /\ UNCHANGED <<progVars, envVars, histVars, camVars, isRecording, isGenerating,
                 recHistory, mediaRecorderRef, audioChunksRef, flows>>

\* getUserMedia resolved: create the recorder and start it
RecordAcquired(r) ==
  /\ recorders[r].st = "acquiring"
  /\ recorders' = [recorders EXCEPT ![r].st = "recording", ![r].track = "live"]
  /\ isRecording' = TRUE
  /\ audioChunksRef' = 0
  /\ mediaRecorderRef' = r
  /\ UNCHANGED <<progVars, envVars, histVars, camVars, isGenerating, recHistory, flows>>

\* getUserMedia rejected: the catch branch only logs
RecordDenied(r) ==
  /\ recorders[r].st = "acquiring"
  /\ recorders' = [recorders EXCEPT ![r].st = "denied"]
  /\ UNCHANGED <<progVars, envVars, histVars, camVars, isRecording, isGenerating,
                 recHistory, mediaRecorderRef, audioChunksRef, flows>>

\* recorder.ondataavailable with a non-empty chunk
DataAvailable(r) ==
  /\ recorders[r].st \in {"recording", "stopping"}
  /\ audioChunksRef < MaxBlob
  /\ audioChunksRef' = audioChunksRef + 1
  /\ UNCHANGED <<progVars, envVars, histVars, camVars, isRecording, isGenerating,
                 recHistory, mediaRecorderRef, recorders, flows>>

\* handleToggleRecording while recording: stop the recorder the ref holds
RecordStop ==
  /\ isRecording
  /\ recorders' = IF mediaRecorderRef # 0 /\ recorders[mediaRecorderRef].st = "recording"
                  THEN [recorders EXCEPT ![mediaRecorderRef].st = "stopping"]
                  ELSE recorders
  /\ UNCHANGED <<progVars, envVars, histVars, camVars, isRecording, isGenerating,
                 recHistory, mediaRecorderRef, audioChunksRef, flows>>

\* recorder.onstop up to await blobToBase64 / transcribeAudio
OnStop(r) ==
  /\ recorders[r].st = "stopping"
  /\ recorders' = [recorders EXCEPT ![r].st = "inactive", ![r].track = "stopped"]
  /\ isRecording' = FALSE
  /\ IF audioChunksRef = 0
     THEN UNCHANGED <<isGenerating, flows>>
     ELSE /\ isGenerating' = TRUE
          /\ flows' = [flows EXCEPT ![r] = "transcribing"]
  /\ UNCHANGED <<progVars, envVars, histVars, camVars, recHistory, mediaRecorderRef,
                 audioChunksRef>>

\* onstop after the transcription: a text goes to handleSendMessage (which
\* returns at once if its guard fails), anything else to the catch branch
Transcribed(r, res) ==
  /\ flows[r] = "transcribing"
  /\ IF res = "text"
     THEN IF SendGuardPasses(recorders[r].seenGen)
          THEN /\ recHistory' = Append(recHistory, [sender |-> "user", text |-> Heard(r)])
               /\ isGenerating' = TRUE
               /\ flows' = [flows EXCEPT ![r] = "text"]
          ELSE /\ flows' = [flows EXCEPT ![r] = "done"]
               /\ UNCHANGED <<recHistory, isGenerating>>
     ELSE /\ recHistory' = Append(recHistory, [sender |-> "ai", text |-> Trouble])
          /\ isGenerating' = FALSE
          /\ flows' = [flows EXCEPT ![r] = "done"]
  /\ UNCHANGED <<progVars, envVars, histVars, camVars, isRecording, mediaRecorderRef,
                 audioChunksRef, recorders>>

\* handleSendMessage for a typed text, up to await generateEmpatheticResponse
TypedSend ==
  /\ flows[0] = "idle"
  /\ SendGuardPasses(isGenerating)
  /\ recHistory' = Append(recHistory, [sender |-> "user", text |-> Typed])
  /\ isGenerating' = TRUE
  /\ flows' = [flows EXCEPT ![0] = "text"]
  /\ UNCHANGED <<progVars, envVars, histVars, camVars, isRecording, mediaRecorderRef,
                 audioChunksRef, recorders>>

\* handleSendMessage after generateEmpatheticResponse: the reply is appended,
\* or the catch branch appends its message and finally clears isGenerating
Replied(f, ok) ==
  /\ flows[f] = "text"
  /\ IF ok
     THEN /\ recHistory' = Append(recHistory, [sender |-> "ai", text |-> Reply])
          /\ flows' = [flows EXCEPT ![f] = "speech"]
          /\ UNCHANGED isGenerating
     ELSE /\ recHistory' = Append(recHistory, [sender |-> "ai", text |-> Encountered])
          /\ flows' = [flows EXCEPT ![f] = "done"]
          /\ isGenerating' = FALSE
  /\ UNCHANGED <<progVars, envVars, histVars, camVars, isRecording, mediaRecorderRef,
                 audioChunksRef, recorders>>

\* handleSendMessage after generateSpeech (playAudio is not awaited), then finally
Spoken(f, ok) ==
  /\ flows[f] = "speech"
  /\ recHistory' = IF ok THEN recHistory
                   ELSE Append(recHistory, [sender |-> "ai", text |-> Encountered])
  /\ flows' = [flows EXCEPT ![f] = "done"]
  /\ isGenerating' = FALSE
  /\ UNCHANGED <<progVars, envVars, histVars, camVars, isRecording, mediaRecorderRef,
                 audioChunksRef, recorders>>

\* ------------------------------------------------------------------ specification
Next ==
  \/ \E r \in Recs : RecordStart(r)
  \/ \E r \in Recs : RecordAcquired(r)
  \/ \E r \in Recs : RecordDenied(r)
  \/ \E r \in Recs : DataAvailable(r)
  \/ RecordStop
  \/ \E r \in Recs : OnStop(r)
  \/ \E r \in Recs, res \in {"text", "empty", "fail"} : Transcribed(r, res)
  \/ TypedSend
  \/ \E f \in 0..MaxRec, ok \in BOOLEAN : Replied(f, ok)
  \/ \E f \in 0..MaxRec, ok \in BOOLEAN : Spoken(f, ok)
  \/ SessionOn
  \/ SessionOff
  \/ \E k \in Cams : StreamAcquired(k)
  \/ \E k \in Cams : StreamDenied(k)
  \/ StartLive
  \/ StartLiveThrows
  \/ StopLive
  \/ \E c \in Chans : OnOpen(c)
  \/ \E c \in Chans, throws \in BOOLEAN : MicGranted(c, throws)
  \/ \E c \in Chans : MicDenied(c)
  \/ \E c \in Chans : ConnectRejects(c)
  \/ \E c \in Chans, u \in FragOpt, a \in FragOpt, tc \in BOOLEAN, au \in 0..MaxDur :
       OnMessage(c, u, a, tc, au)
  \/ DecodeDone
  \/ DecodeFails
  \/ \E c \in Chans : OnError(c)
  \/ \E c \in Chans : OnClose(c)
  \/ \E g \in Chans, inputData \in Buffers : AudioProcess(g, inputData)
  \/ Tick
  \/ \E i \in 1..MaxChunks : SourceEnded(i)
  \/ \E text \in Texts : SendStart(text)
  \/ \E ok \in BOOLEAN : TextDone(ok)
  \/ \E res \in {"audio", "none", "fail"} : SpeechDone(res)
  \/ \E ok \in BOOLEAN : SpeechDecoded(ok)
  \/ \E i \in 1..MaxHist : SpeechEnded(i)

Spec == Init /\ [][Next]_vars

\* The lifecycle alone: toggle, the four callbacks (messages carry only the
\* turn-complete signal) and the microphone acquisition of onopen.
NextLife ==
  \/ StartLive
  \/ StartLiveThrows
  \/ StopLive
  \/ \E c \in Chans : OnOpen(c)
  \/ \E c \in Chans, throws \in BOOLEAN : MicGranted(c, throws)
  \/ \E c \in Chans : MicDenied(c)
  \/ \E c \in Chans : OnMessage(c, NoFrag, NoFrag, TRUE, 0)
  \/ \E c \in Chans : OnError(c)
  \/ \E c \in Chans : OnClose(c)

SpecLife == Init /\ [][NextLife]_vars

\* The turn coordinator: sessions that open, receive text-only messages and
\* errors, and are closed (a stop request changes nothing here but the channel).
NextTurn ==
  \/ StartLive
  \/ \E c \in Chans : OnOpen(c)
  \/ \E c \in Chans, u \in FragOpt, a \in FragOpt, tc \in BOOLEAN : OnMessage(c, u, a, tc, 0)
  \/ \E c \in Chans : OnError(c)
  \/ \E c \in Chans : OnClose(c)

SpecTurn == Init /\ [][NextTurn]_vars

\* The chat history: the turn coordinator together with the turn-based send.
NextChat ==
  \/ NextTurn
  \/ StopLive
  \/ \E text \in Texts : SendStart(text)
  \/ \E ok \in BOOLEAN : TextDone(ok)
  \/ \E res \in {"audio", "none", "fail"} : SpeechDone(res)
  \/ \E ok \in BOOLEAN : SpeechDecoded(ok)

SpecChat == Init /\ [][NextChat]_vars

\* The voices: a turn-based send with its synthesized speech next to live
\* sessions whose messages carry audio.
NextVoice ==
  \/ StartLive
  \/ StopLive
  \/ \E c \in Chans : OnOpen(c)
  \/ \E c \in Chans, au \in Durations : OnMessage(c, NoFrag, NoFrag, FALSE, au)
  \/ DecodeDone
  \/ \E c \in Chans : OnClose(c)
  \/ SendStart(Typed)
  \/ TextDone(TRUE)
  \/ SpeechDone("audio")
  \/ \E ok \in BOOLEAN : SpeechDecoded(ok)
  \/ \E i \in 1..MaxHist : SpeechEnded(i)

SpecVoice == Init /\ [][NextVoice]_vars


\* The playback scheduler: the lifecycle, messages with audio and at most one
\* kind of fragment per speaker, the decode continuation and the output clock.
NextAudio ==
  \/ StartLive
  \/ StopLive
  \/ \E c \in Chans : OnOpen(c)
  \/ \E c \in Chans, u \in {NoFrag, "a"}, a \in {NoFrag, "a"}, au \in 0..MaxDur :
       OnMessage(c, u, a, FALSE, au)
  \/ DecodeDone
  \/ \E c \in Chans : OnError(c)
  \/ \E c \in Chans : OnClose(c)
  \/ Tick
  \/ \E i \in 1..MaxChunks : SourceEnded(i)

SpecAudio == Init /\ [][NextAudio]_vars

\* The routing of a message: sessions whose messages carry any combination of
\* text, turn-complete signal and audio.
NextRoute ==
  \/ StartLive
  \/ \E c \in Chans : OnOpen(c)
  \/ \E c \in Chans, u \in {NoFrag, "a"}, a \in {NoFrag, "a"}, tc \in BOOLEAN, au \in {0, MaxDur} :
       OnMessage(c, u, a, tc, au)
  \/ DecodeDone
  \/ \E c \in Chans : OnClose(c)

SpecRoute == Init /\ [][NextRoute]_vars

\* The capture pipeline: the lifecycle with the microphone granted and the
\* capture callback delivering frames.
NextCapture ==
  \/ StartLive
  \/ StopLive
  \/ \E c \in Chans : OnOpen(c)
  \/ \E c \in Chans : MicGranted(c, FALSE)
  \/ \E g \in Chans, inputData \in Buffers : AudioProcess(g, inputData)
  \/ \E c \in Chans : OnError(c)
  \/ \E c \in Chans : OnClose(c)

SpecCapture == Init /\ [][NextCapture]_vars

\* The encoder: sessions whose capture callback converts frames.
NextEncode ==
  \/ StartLive
  \/ \E c \in Chans : OnOpen(c)
  \/ \E c \in Chans : MicGranted(c, FALSE)
  \/ \E g \in Chans, inputData \in Buffers : AudioProcess(g, inputData)
  \/ \E c \in Chans : OnClose(c)

SpecEncode == Init /\ [][NextEncode]_vars

\* The timeline cursor: sessions whose messages carry audio only, the decode
\* continuation and the output clock.
NextCursor ==
  \/ StartLive
  \/ \E c \in Chans : OnOpen(c)
  \/ \E c \in Chans, au \in Durations : OnMessage(c, NoFrag, NoFrag, FALSE, au)
  \/ DecodeDone
  \/ Tick
  \/ \E c \in Chans : OnClose(c)

SpecCursor == Init /\ [][NextCursor]_vars

\* The opening of the channel: the lifecycle with connection attempts that fail.
NextOpen ==
  \/ NextLife
  \/ \E c \in Chans : ConnectRejects(c)

SpecOpen == Init /\ [][NextOpen]_vars

\* The decoder: sessions whose messages carry audio, with or without an agent
\* fragment, and whose chunks may fail to decode.
NextDecode ==
  \/ StartLive
  \/ \E c \in Chans : OnOpen(c)
  \/ \E c \in Chans, a \in {NoFrag, "a"}, au \in Durations : OnMessage(c, NoFrag, a, FALSE, au)
  \/ DecodeDone
  \/ DecodeFails
  \/ \E c \in Chans : OnClose(c)

SpecDecode == Init /\ [][NextDecode]_vars

\* a channel that was asked to close delivers its close callback
ClosingCloses(c) == chan[c] = "closing" /\ OnClose(c)

\* The lifecycle with a channel that resolves (ConnectRejects is not a step)
\* and delivers the close callback it was asked for.
SpecStop ==
  /\ Init
  /\ [][NextLife]_vars
  /\ \A c \in Chans : WF_vars(OnOpen(c)) /\ WF_vars(ClosingCloses(c))

\* The active set: sessions whose messages carry only audio, with sources
\* that play to their end and toggles that stop them.
NextPlay ==
  \/ StartLive
  \/ StopLive
  \/ \E c \in Chans : OnOpen(c)
  \/ \E c \in Chans, au \in Durations : OnMessage(c, NoFrag, NoFrag, FALSE, au)
  \/ DecodeDone
  \/ Tick
  \/ \E i \in 1..MaxChunks : SourceEnded(i)
  \/ \E c \in Chans : OnClose(c)

SpecPlay == Init /\ [][NextPlay]_vars

\* The camera session: the toggle and the acquisitions of startStream.
NextCamera ==
  \/ SessionOn
  \/ SessionOff
  \/ \E k \in Cams : StreamAcquired(k)
  \/ \E k \in Cams : StreamDenied(k)

SpecCamera == Init /\ [][NextCamera]_vars

\* The recorder variant: recordings, their transcription and the requests.
NextRecorder ==
  \/ \E r \in Recs : RecordStart(r)
  \/ \E r \in Recs : RecordAcquired(r)
  \/ \E r \in Recs : RecordDenied(r)
  \/ \E r \in Recs : DataAvailable(r)
  \/ RecordStop
  \/ \E r \in Recs : OnStop(r)
  \/ \E r \in Recs, res \in {"text", "empty", "fail"} : Transcribed(r, res)
  \/ TypedSend
  \/ \E f \in 0..MaxRec, ok \in BOOLEAN : Replied(f, ok)
  \/ \E f \in 0..MaxRec, ok \in BOOLEAN : Spoken(f, ok)

SpecRecorder == Init /\ [][NextRecorder]_vars

\* ------------------------------------------------------------------ properties

\* C1: after every inbound message at most one of the two turn flags
\* isUserTurnActive and isAiTurnActive is true.
C1_TurnExclusive == ~(isUserTurnActive /\ isAiTurnActive)

\* a message has just opened a user turn on top of an agent entry: the user
\* fragment arrived while the agent turn was active
C1_Witness ==
  /\ lastOp = "onmessage"
  /\ isUserTurnActive
  /\ Len(chatHistory) >= 2
  /\ chatHistory[Len(chatHistory)].sender = "user"
  /\ chatHistory[Len(chatHistory) - 1].sender = "ai"
  /\ msgCount = 2

\* a message that carries a user fragment and no agent fragment, arriving
\* while the agent turn is active, appends one user entry
UserBargesIn ==
  /\ msgCount' = msgCount + 1
  /\ isAiTurnActive
  /\ Len(chatHistory') = Len(chatHistory) + 1
  /\ chatHistory'[Len(chatHistory')].sender = "user"

\* C2: a user fragment arriving while the agent turn is active with N playback
\* handles in the active set leaves the user turn active, the agent turn
\* inactive, every one of the N handles stopped and the active set empty.
C2_BargeInStopsPlayback ==
  [][UserBargesIn =>
       /\ isUserTurnActive'
       /\ ~isAiTurnActive'
       /\ liveAudioSources' = {}
       /\ \A i \in liveAudioSources : sources'[i].st = "stopped"]_vars

\* C3: a run of fragments of one speaker, with no turn-complete signal and no
\* fragment of the other speaker in between, adds exactly one entry to the
\* history, carrying the speaker and the fragments concatenated in arrival order
\* (stated of the history as each fragment of the run leaves it).
C3_RunIsOneMessage ==
  (lastOp = "onmessage" /\ run.sp # "none") =>
    /\ Len(chatHistory) = run.base + 1
    /\ chatHistory[run.base + 1] = [sender |-> run.sp, text |-> run.text]

RECURSIVE SumDur(_, _, _)
\* total duration of the first n sources that belong to channel c
SumDur(srcs, c, n) ==
  IF n = 0 THEN 0
  ELSE SumDur(srcs, c, n - 1) + (IF srcs[n].ch = c THEN srcs[n].dur ELSE 0)

\* C4: within one live session, while the output clock stays at t0, the k-th
\* chunk of the session starts at t0 + d1 + ... + d(k-1).
C4_Gapless ==
  still # 0 =>
    \A i \in DOMAIN sources :
      sources[i].ch = still => sources[i].start = clock + SumDur(sources, still, i - 1)

\* the session is torn down: nothing captures, nothing is held
TornDown ==
  /\ \A c \in Chans : graph[c] # "connected"
  /\ \A c \in Chans : mic[c] # "live"
  /\ inputCtx # "running"
  /\ outputCtx # "running"
  /\ ~isUserTurnActive
  /\ ~isAiTurnActive
  /\ ~isLiveActive
  /\ sessionPromiseRef = 0

\* C5: a second close in succession (a second stop request, or a second run
\* of the close callback) changes no state of the program and raises no
\* error: the audio resources are torn down once.
C5_CloseIdempotent ==
  [][/\ (lastOp = "onclose" /\ lastOp' = "onclose" /\ chan' # chan)
          => (progVars' = progVars /\ ~uncaught')
     /\ (lastOp = "stop" /\ lastOp' = "stop" /\ rep')
          => (progVars' = progVars /\ chan' = chan /\ closeReq' = closeReq)]_vars

\* the close callback has run twice in succession on a session whose contexts existed
C5_Witness == lastOp = "onclose" /\ rep /\ inputCtx = "closed" /\ outputCtx = "closed"

\* C6: at most one live channel is opening or open at any time.
C6_OneChannel ==
  Cardinality({c \in Chans : chan[c] \in {"connecting", "open", "closing"}}) <= 1

\* C7: when the channel reports an error, a user-visible error is set and the
\* session is torn down exactly as on close.
C7_ErrorTearsDown == lastOp = "onerror" => (mediaError /\ TornDown)

\* C8: a decode in flight when its session closed has its result ignored: no
\* source is started or added to the active set, the cursor is not advanced.
C8_StaleDecodeIgnored ==
  [][(decodeQ # <<>> /\ decodeQ' = Tail(decodeQ) /\ chan[Head(decodeQ).ch] = "closed")
       => (sources' = sources /\ liveAudioSources' = liveAudioSources
           /\ nextStartTime' = nextStartTime)]_vars

\* C9: the handling of a message, decode and scheduling of its chunk included,
\* completes before the handling of the next message begins.
C9_MessagesSerialized == [][msgCount' # msgCount => decodeQ = <<>>]_vars

\* C10: after the close callback has run the capture graph is disconnected,
\* every microphone track is stopped, both audio contexts are closed, both turn
\* flags are false, the live flag is false and the session handle is null.
C10_CloseTearsDown == lastOp = "onclose" => TornDown

\* C11: when the microphone acquisition of a session fails, a user-facing error
\* is set, the capture graph of that session is never connected (no frame is
\* sent), and the session's channel is asked to close and ends closed with the
\* live flag false and the session handle null: it never stays half-open.
C11_MicFailureCloses ==
  [][\A c \in Chans :
       mic'[c] = "denied" =>
         /\ mic[c] = "pending" => mediaError'
         /\ graph'[c] # "connected"
         /\ chan'[c] \in {"closing", "closed"}
         /\ (chan[c] # "closed" /\ chan'[c] = "closed")
              => (~isLiveActive' /\ sessionPromiseRef' = 0)]_vars

\* a synthesized-speech source that may still be sounding
SpeechSounding == \E i \in DOMAIN ttsSources : ttsSources[i].st = "active"

\* a live source that is sounding now on the running output context
LiveSounding ==
  \E i \in DOMAIN sources :
    /\ sources[i].st = "active"
    /\ sources[i].ctx = outputCtxId
    /\ outputCtx = "running"
    /\ sources[i].start <= clock
    /\ clock < sources[i].start + sources[i].dur

\* a new turn-based interaction starts, or the live session is toggled
InteractionStarts ==
  \/ genState = "idle" /\ genState' = "text"
  \/ ~isLiveActive /\ isLiveActive'
  \/ lastOp' = "stop"

\* C12: synthesized speech and live agent audio never sound at the same time,
\* and when a turn-based interaction starts or the live session is toggled no
\* audio source is left playing.
C12_OneVoice ==
  [][/\ ~(SpeechSounding' /\ LiveSounding')
     /\ InteractionStarts =>
          /\ ~SpeechSounding'
          /\ \A i \in DOMAIN sources' : sources'[i].st # "active"]_vars

\* C13: a message that carries an audio chunk has the chunk handed to the
\* decoder whatever the turn flags and whatever else the message carries, and
\* a decoded chunk is scheduled at the cursor; the text of a message is applied
\* to the history and the flags as it is for a message without audio.
C13_AudioAndTextBothServed ==
  [][/\ msgCount' = msgCount + 1 =>
          LET m == lastMsg'
              t == TurnCompleteBranch(
                     AiBranch(UserBranch([hist |-> chatHistory, user |-> isUserTurnActive,
                                          ai |-> isAiTurnActive], m.u), m.a), m.tc)
          IN /\ chatHistory' = t.hist
             /\ isUserTurnActive' = t.user
             /\ isAiTurnActive' = t.ai
             /\ m.au # 0 =>
                  /\ Len(decodeQ') = Len(decodeQ) + 1
                  /\ decodeQ'[Len(decodeQ')].dur = m.au
     /\ (decodeQ # <<>> /\ decodeQ' = Tail(decodeQ)) =>
          /\ Len(sources') = Len(sources) + 1
          /\ sources'[Len(sources')].dur = Head(decodeQ).dur
          /\ sources'[Len(sources')].start = nextStartTime
          /\ nextStartTime' = nextStartTime + Head(decodeQ).dur]_vars

\* a message with a user fragment and audio was handled in the user's turn,
\* after an earlier chunk had been decoded and scheduled
C13_Witness ==
  /\ lastOp = "onmessage"
  /\ lastMsg.au # 0
  /\ lastMsg.u # NoFrag
  /\ isUserTurnActive
  /\ ~isAiTurnActive
  /\ sources # <<>>
  /\ decodeQ # <<>>

\* the chunks made of frame id, sent or waiting to be sent
ChunksOfFrame(id) ==
  {i \in DOMAIN wire : wire[i].id = id} \cup {-i : i \in {j \in DOMAIN sendQ : sendQ[j].id = id}}

OnlyTurnComplete == [u |-> NoFrag, a |-> NoFrag, tc |-> TRUE, au |-> 0]

\* C15: a message that carries only a turn-complete signal sets both turn
\* flags to false and leaves the chat history, the timeline cursor, the
\* playback sources and the active set as they were.
C15_TurnCompleteOnlyClearsFlags ==
  [][(msgCount' = msgCount + 1 /\ lastMsg' = OnlyTurnComplete) =>
       /\ ~isUserTurnActive'
       /\ ~isAiTurnActive'
       /\ chatHistory' = chatHistory
       /\ nextStartTime' = nextStartTime
       /\ liveAudioSources' = liveAudioSources
       /\ sources' = sources
       /\ decodeQ' = decodeQ]_vars

\* the signal arrived as the second message, after a message with an agent
\* fragment and audio had opened the agent's turn and its chunk was scheduled
C15_Witness ==
  /\ lastOp = "onmessage"
  /\ lastMsg = OnlyTurnComplete
  /\ msgCount = 2
  /\ Len(chatHistory) = 1
  /\ chatHistory[1].sender = "ai"
  /\ liveAudioSources # {}
  /\ nextStartTime > 0

\* C16: the chat history never loses or reorders an entry and no entry changes
\* its sender: every step keeps the entries there were, in their places and
\* with their senders, and at most appends at the end.
C16_HistoryAppendOnly ==
  [][/\ Len(chatHistory') >= Len(chatHistory)
     /\ \A i \in DOMAIN chatHistory : chatHistory'[i].sender = chatHistory[i].sender]_vars

\* C17: float32ToInt16 maps every sample to an integer in [-32768, 32767]
\* without wrap-around: a sample at or above 1.0 gives 32767, one at or below
\* -1.0 gives -32768, 0.0 gives 0, and a sample in range is scaled by 32768
\* when negative and by 32767 when not (the fraction dropped).
C17_ClampedScaling ==
  /\ DOMAIN lastFrame.int16Data = DOMAIN lastFrame.inputData
  /\ \A i \in DOMAIN lastFrame.inputData :
       LET x == lastFrame.inputData[i]
           y == lastFrame.int16Data[i]
       IN /\ y \in -32768..32767
          /\ x >= Unit => y = 32767
          /\ x <= -Unit => y = -32768
          /\ x = 0 => y = 0
          /\ (-Unit < x /\ x < 0) => y = -((-x * 32768) \div Unit)
          /\ (0 <= x /\ x < Unit) => y = (x * 32767) \div Unit

\* the frame 1.5, -1.5, 0.0 has been converted
C17_Witness ==
  /\ Len(lastFrame.inputData) = 3
  /\ lastFrame.inputData[1] > Unit
  /\ lastFrame.inputData[2] < -Unit
  /\ lastFrame.int16Data = <<32767, -32768, 0>>

\* a decode has completed and its chunk has been scheduled
ChunkScheduled ==
  /\ decodeQ # <<>>
  /\ decodeQ' = Tail(decodeQ)
  /\ Len(sources') = Len(sources) + 1

\* C18: no chunk is given a start time earlier than the output clock at the
\* moment its playback is started: the start time is the larger of the cursor
\* and the clock as they stand when the chunk is scheduled.
C18_NeverStartsInThePast ==
  [][ChunkScheduled =>
       /\ sources'[Len(sources')].start >= clock
       /\ sources'[Len(sources')].start = Max(nextStartTime, clock)]_vars

\* a session opens
SessionOpens == \E c \in Chans : chan[c] = "connecting" /\ chan'[c] \in {"open", "closing"}

\* C19: between two session opens the timeline cursor never decreases, and
\* scheduling a chunk sets the cursor to the chunk's start time plus the
\* chunk's duration.
C19_CursorMonotonic ==
  [][/\ ~SessionOpens => nextStartTime' >= nextStartTime
     /\ ChunkScheduled =>
          nextStartTime' = sources'[Len(sources')].start + sources'[Len(sources')].dur]_vars

\* two chunks have been scheduled, the second after the clock had advanced
\* past the first one's start, and the cursor stands at the second one's end
C19_Witness ==
  /\ Len(sources) = 2
  /\ clock > 0
  /\ sources[2].start > sources[1].start
  /\ nextStartTime = sources[2].start + sources[2].dur

\* opening the channel fails: startLiveSession throws, the connection promise
\* rejects, or the connection attempt ends in a close before the channel opened
OpenFails ==
  \/ lastOp' = "startThrows"
  \/ \E c \in Chans : chan[c] = "connecting" /\ chan'[c] \in {"rejected", "closed"}

\* C20: when opening the channel fails the lifecycle is back in Closed: the
\* live flag is false and no session handle is retained, so that a later start
\* request opens a new session.
C20_OpenFailureReturnsToClosed ==
  [][OpenFails => (~isLiveActive' /\ sessionPromiseRef' = 0 /\ CanStart(isLiveActive'))]_vars

\* C21: when a chunk cannot be decoded it is dropped and the session goes on:
\* no source is created for it, the channel, the live flag, the turn flags,
\* the history and the cursor stay as they were, and a chunk whose decode
\* completes afterwards is still scheduled.
C21_UndecodableChunkDropped ==
  [][/\ lastOp' = "decodeFails" =>
          /\ decodeQ' = Tail(decodeQ)
          /\ sources' = sources
          /\ liveAudioSources' = liveAudioSources
          /\ nextStartTime' = nextStartTime
          /\ chan' = chan
          /\ isLiveActive' = isLiveActive
          /\ sessionPromiseRef' = sessionPromiseRef
          /\ isUserTurnActive' = isUserTurnActive
          /\ isAiTurnActive' = isAiTurnActive
          /\ chatHistory' = chatHistory
     /\ (uncaught /\ decodeQ # <<>> /\ decodeQ' = Tail(decodeQ) /\ lastOp' # "decodeFails") =>
          /\ Len(sources') = Len(sources) + 1
          /\ sources'[Len(sources')].dur = Head(decodeQ).dur
          /\ Len(sources') \in liveAudioSources']_vars

\* of two chunks of an open session one failed to decode, and the decode that
\* completed last has scheduled the other
C21_Witness ==
  /\ lastOp = "other"
  /\ uncaught
  /\ msgCount = 2
  /\ decodeQ = <<>>
  /\ Len(sources) = 1
  /\ chan[1] = "open"
  /\ isLiveActive
  /\ isAiTurnActive

\* the Closed state of the session
Closed ==
  /\ ~isLiveActive
  /\ sessionPromiseRef = 0
  /\ ~isUserTurnActive
  /\ ~isAiTurnActive

\* the user's toggle has just asked an opening or open session to close
StopRequested == lastOp = "stop" /\ halted # 0

\* C22: a user stop issued while the session is opening or open eventually
\* brings the session to Closed (live flag false, session handle null, both
\* turn flags false), given that the channel resolves and delivers its close
\* callback.
C22_StopLeadsToClosed == StopRequested ~> Closed

\* the session was stopped while it was still opening, and its close callback
\* has just left it Closed
C22_Witness ==
  /\ lastOp = "onclose"
  /\ halted = 1
  /\ chan[1] = "closed"
  /\ mic[1] = "pending"
  /\ Closed

\* C23: once the session is Closed (and no channel is left opening or open) no
\* microphone track is live and no capture graph is connected to a running
\* context, also when the close callback ran while getUserMedia was pending
\* and the acquisition resolved afterwards.
C23_NoMicAfterClose ==
  (Closed /\ \A c \in Chans : chan[c] \in {"none", "closed"}) =>
     /\ \A c \in Chans : mic[c] # "live"
     /\ \A c \in Chans : ~(graph[c] = "connected" /\ inputCtx = "running")

\* every source that was playing has been force-stopped and no chunk is being decoded
Interrupted ==
  /\ decodeQ = <<>>
  /\ liveAudioSources = {}
  /\ \E i \in DOMAIN sources : sources[i].st = "stopped"
  /\ \A i \in DOMAIN sources : sources[i].st # "active"

\* C24: after an interruption has stopped all active sources, the next chunk
\* is scheduled at the output clock's current time, not after the time the
\* cursor had reserved for the stopped chunks.
C24_RescheduledAtClock ==
  [][(Interrupted /\ lastOp' = "onmessage" /\ lastMsg'.au # 0 /\ decodeQ' # <<>>) =>
       nextStartTime' = clock]_vars

\* C25: whenever a live session opens, both turn flags are false (so the first
\* fragment of either speaker starts a new ChatMessage), whether the session
\* before it ended by a close or by a channel error.
C25_FlagsClearAtOpen ==
  [][SessionOpens => (~isUserTurnActive' /\ ~isAiTurnActive')]_vars

\* the entry at position i of the history h is of the sender and ends with the fragment f
EndsWith(h, i, sender, f) ==
  /\ i \in DOMAIN h
  /\ h[i].sender = sender
  /\ h[i].text # <<>>
  /\ h[i].text[Len(h[i].text)] = f

\* C26: no transcript fragment is lost: after a message that carried a
\* fragment has been handled, the last ChatMessage is of the fragment's
\* speaker and its text ends with the fragment (when the message carried a
\* fragment of each speaker, the user's entry is the one before the agent's),
\* for every interleaving of live messages, sends and errors.
C26_NoFragmentLost ==
  [][lastOp' = "onmessage" =>
       LET h == chatHistory'
           m == lastMsg'
       IN /\ m.a # NoFrag => EndsWith(h, Len(h), "ai", m.a)
          /\ (m.u # NoFrag /\ m.a = NoFrag) => EndsWith(h, Len(h), "user", m.u)
          /\ (m.u # NoFrag /\ m.a # NoFrag) => EndsWith(h, Len(h) - 1, "user", m.u)]_vars

\* handleSendMessage passes its guard: the user's entry and the placeholder are appended
RequestStarts ==
  /\ Len(chatHistory') = Len(chatHistory) + 2
  /\ chatHistory'[Len(chatHistory')].text = Dots

\* the toggle starts a live session
LiveStarts == \E c \in Chans : chan[c] = "none" /\ chan'[c] = "connecting"

\* C27: the turn-based and the live mode exclude each other: no text or speech
\* request is started while a channel is opening or open, no live session is
\* started while a request is in flight, and at most one turn-based request
\* is in flight at a time.
C27_ModesExclusive ==
  [][/\ RequestStarts => \A c \in Chans : chan[c] \notin {"connecting", "open"}
     /\ LiveStarts => genState = "idle"
     /\ RequestStarts => genState = "idle"]_vars

\* C30: a source of a live chunk is in the active set exactly from its
\* scheduling until it ends or is force-stopped: a scheduled source that has
\* neither ended nor been stopped is in the set, an ended or stopped one is
\* not, and the toggle (stopAllAudio) leaves the set empty.
C30_ActiveSetExact ==
  [][/\ \A i \in DOMAIN sources' :
          (i \in liveAudioSources') <=> (sources'[i].st \notin {"ended", "stopped"})
     /\ liveAudioSources' \subseteq DOMAIN sources'
     /\ (lastOp' = "stop" \/ LiveStarts) => liveAudioSources' = {}]_vars

\* one source has played to its end, another was playing when the toggle
\* stopped it, and the set is empty
C30_Witness ==
  /\ lastOp = "stop"
  /\ liveAudioSources = {}
  /\ \E i \in DOMAIN sources : sources[i].st = "ended"
  /\ \E i \in DOMAIN sources : sources[i].st = "stopped"

\* C28: while the camera session is inactive no camera stream is held: the
\* stream is null and every track is stopped, also when stopStream ran while
\* startStream was still acquiring the device; and at no time are the tracks
\* of more than one stream running.
C28_NoCameraWhenInactive ==
  /\ ~isSessionActive =>
       /\ streamRef = 0
       /\ stream = 0
       /\ \A k \in Cams : tracks[k] # "live"
  /\ Cardinality({k \in Cams : tracks[k] = "live"}) <= 1

\* a recording has just stopped: the onstop handler of a recorder ran
RecordingStops == \E r \in Recs : recorders[r].st = "stopping" /\ recorders'[r].st = "inactive"

\* a non-empty transcription of the recording r has just arrived
TextOf(r) == flows[r] = "transcribing" /\ flows'[r] \in {"text", "done"} /\ isGenerating'

\* nothing is being acquired, recorded, transcribed or answered
RecorderQuiet ==
  /\ \A r \in Recs : recorders[r].st \notin {"acquiring", "recording", "stopping"}
  /\ \A f \in 0..MaxRec : flows[f] \in {"idle", "done"}

\* C29: in the recorder variant, once a recording stops no microphone track
\* is live and isRecording is false; a non-empty transcription is appended as
\* exactly one user message; and when every path has run to its end (empty
\* audio, empty or failed transcription, failed or successful reply)
\* isGenerating is false.
C29_RecordingStopsCleanly ==
  [][/\ RecordingStops =>
          /\ ~isRecording'
          /\ \A r \in Recs : recorders'[r].track # "live"
     /\ \A r \in Recs : TextOf(r) =>
          recHistory' = Append(recHistory, [sender |-> "user", text |-> Heard(r)])
     /\ \A r \in Recs :
          Cardinality({i \in DOMAIN recHistory' : recHistory'[i].text = Heard(r)}) <= 1
     /\ RecorderQuiet' => ~isGenerating']_vars

====
